---- MODULE Spec2Model ----
(***************************************************************************)
(* Model of .github/scripts/check_streams.py: the stream checker that      *)
(* probes every entry of an M3U playlist (check_entry), collects one       *)
(* (entry, status, message) triple per entry (main) and derives the exit   *)
(* code of the process from the collected statuses.                        *)
(*                                                                         *)
(* Strings that the code searches with "in" (URL, exception text, body)    *)
(* are sequences of text fragments; "x in s" is modelled as "x is one of   *)
(* the fragments of s" after the same lower-casing / decoding the code     *)
(* applies.  Sleep durations are in quarter seconds (1.25 s = 5).          *)
(***************************************************************************)
EXTENDS Integers, Sequences, FiniteSets, TLC

(* ------------------------------ bounds --------------------------------- *)
MaxEntries == 2      \* longest playlist explored
MaxRetries == 3      \* largest --retries explored
MaxChunk == 2        \* longest chunk iter_content yields (stands for chunk_size=1024)
MaxChunks == 3       \* most chunks a response body is read in
MaxCap == 3          \* largest max_bytes explored
MaxLines == 4        \* longest playlist text explored, in lines

(* --------------------------- program constants -------------------------- *)
DefaultBackoff == 5  \* --backoff default 1.25 s, in quarter seconds

(* Status enum *)
OK == "OK"
WARN == "WARN"
FAIL == "FAIL"
Status == {OK, WARN, FAIL}

None == [none |-> TRUE]

(* ------------------------------- inputs --------------------------------- *)
UrlHls == <<"http://", "tv.example/live", ".M3U8">>
UrlDash == <<"https://", "cdn.example/manifest", ".mpd">>
UrlHttp == <<"http://", "radio.example/stream">>

(* Entry dataclass: name, url, user_agent *)
EntryHls == [name |-> "Rai 1", url |-> UrlHls, user_agent |-> "none"]
EntryDash == [name |-> "UNKNOWN", url |-> UrlDash, user_agent |-> "VLC/3.0"]
EntryHttp == [name |-> "Radio 3", url |-> UrlHttp, user_agent |-> "none"]
Entry == {EntryHls, EntryDash, EntryHttp}

Playlists == UNION {[1..n -> Entry] : n \in 0..MaxEntries}

(* --retries is any int: zero and negative values are accepted *)
RetriesChoices == {-1} \cup (0..MaxRetries)

(* --backoff *)
BackoffChoices == {DefaultBackoff}

(* Bodies (the first max_bytes bytes of the response) *)
BodyHls == <<"#EXTM3U", "#EXTINF">>
BodyMpd == <<"<?xml", "<MPD">>
BodyUrn == <<"urn:mpeg:dash:schema:mpd">>
BodyHtml == <<"0xFF", "<html>">>
Bodies == {BodyHls, BodyMpd, BodyUrn, BodyHtml}

StatusCodes == {199, 200, 399, 400, 403, 404, 451, 499, 500}

(* What http_get_some hands to check_entry: a response ... *)
Responses == [status : StatusCodes, data : Bodies]

(* ... or a requests.exceptions.RequestException *)
ExTimeout == [type |-> "ReadTimeout", text |-> <<"read timeout=30">>]
ExDns == [type |-> "ConnectionError", text |-> <<"Failed to resolve">>]
ExDnsTimeout == [type |-> "ConnectionError", text |-> <<"DNS", "Timed Out">>]
ExOther == [type |-> "SSLError", text |-> <<"certificate verify failed">>]
Exceptions == {ExTimeout, ExDns, ExDnsTimeout, ExOther}

Outcomes == Responses \cup Exceptions

(* The outcomes fed to a whole run of main: one of each kind of outcome *)
RunOutcomes ==
  {[status |-> 200, data |-> BodyHls], [status |-> 200, data |-> BodyMpd],
   [status |-> 403, data |-> BodyHtml], [status |-> 404, data |-> BodyHtml],
   [status |-> 500, data |-> BodyHtml], ExTimeout, ExOther}

IsResponse(o) == "status" \in DOMAIN o
IsException(o) == "type" \in DOMAIN o

(* --------------------------- string helpers ----------------------------- *)
(* str.lower() on one fragment *)
Lower(t) ==
  CASE t = ".M3U8" -> ".m3u8"
    [] t = ".MPD" -> ".mpd"
    [] t = "Failed to resolve" -> "failed to resolve"
    [] t = "DNS" -> "dns"
    [] t = "Timed Out" -> "timed out"
    [] t = "Text/HTML" -> "text/html"
    [] OTHER -> t

LowerAll(s) == [i \in DOMAIN s |-> Lower(s[i])]

(* "x in s" *)
Contains(s, x) == \E i \in DOMAIN s : s[i] = x

(* bytes.decode("utf-8", errors="ignore"): undecodable bytes are dropped *)
Decode(data) == SelectSeq(data, LAMBDA b : b # "0xFF")

(* ----------------------------- sniff_type ------------------------------- *)
sniff_type(url) ==
  LET u == LowerAll(url) IN
  IF Contains(u, ".m3u8") THEN "hls"
  ELSE IF Contains(u, ".mpd") THEN "dash"
  ELSE "http"

(* ------------------------- exception predicates ------------------------- *)
DnsTokens == {"name or service not known", "failed to resolve",
              "temporary failure in name resolution",
              "nodename nor servname provided", "dns"}

is_likely_dns_error(ex) ==
  LET msg == LowerAll(ex.text) IN \E token \in DnsTokens : Contains(msg, token)

is_timeout_error(ex) ==
  \/ ex.type \in {"ConnectTimeout", "ReadTimeout"}
  \/ Contains(LowerAll(ex.text), "timed out")

(* ------------------------------ messages -------------------------------- *)
(* The f-strings check_entry returns: the format, and what is filled in *)
Msg(fmt, status, detail) == [fmt |-> fmt, status |-> status, detail |-> detail]
NoMsg == Msg("", 0, "")

(* ------------------------------ state ----------------------------------- *)
VARIABLES
  entries,    \* main: the parsed playlist
  retries,    \* args.retries
  backoff_s,  \* args.backoff
  strict,     \* args.strict
  pc,         \* where main (or the scripted harness) stands
  idx,        \* main: position of "for e in entries"
  ce,         \* the running check_entry call: its locals and what it did
  results,    \* main: results list
  report,     \* main: what was written to args.output, None before
  exitCode,   \* main: return value, None before
  script,     \* harness: the outcomes fed to the running call so far
  first,      \* harness: the finished first call, None before
  hg,         \* the running http_get_some call, None when there is none
  pe          \* the running parse_entries call, None when there is none

vars == <<entries, retries, backoff_s, strict, pc, idx, ce, results, report,
          exitCode, script, first, hg, pe>>

(* ----------------------------- check_entry ------------------------------ *)
(* mutant: the attempt counter goes on from the previous call's attempts *)
NewCallKeepsAttempt ==
  [attempt |-> Len(script) + 1, done |-> FALSE,
   st |-> "-", msg |-> [fmt |-> "", status |-> 0, detail |-> ""],
   last_ex |-> None, out |-> None, probes |-> 0, sleeps |-> <<>>]

(* Entering check_entry: last_ex = None, the loop starts at attempt 1.      *)
(* probes counts the calls of http_get_some, sleeps lists the time.sleep    *)
(* arguments, out is what the latest http_get_some call gave.               *)
NewCall ==
  [attempt |-> 1, done |-> FALSE, st |-> "-", msg |-> NoMsg, last_ex |-> None,
   out |-> None, probes |-> 0, sleeps |-> <<>>]

(* return st, msg *)
Return(c, st, msg) == [c EXCEPT !.done = TRUE, !.st = st, !.msg = msg]

(* mutant: the same pause after every attempt *)
BackoffConstant(b, attempt) == b

(* time.sleep(backoff_s * attempt) *)
Backoff(b, attempt) == b * attempt

(* time.sleep(backoff_s * attempt); continue *)
SleepAndContinue(c, b) ==
  [c EXCEPT !.sleeps = Append(@, Backoff(b, c.attempt)), !.attempt = @ + 1]

(* mutant: 451 is not recognised as restricted *)
IsRestricted403Only(status, sm) == status = 403 /\ ~sm

(* mutant: the strict flag is not consulted *)
IsRestrictedAnyMode(status, sm) == status \in {403, 451}

(* line 127 *)
IsRestricted(status, sm) == status \in {403, 451} /\ ~sm

(* line 130 *)
IsBadStatus(status) == status < 200 \/ status >= 400

(* mutant: every status from 400 up is retried *)
Retry5xxFrom400(status, attempt, rt, sm) == ~sm /\ status >= 400 /\ attempt < rt

(* mutant: 500 itself is not retried *)
Retry5xxAbove500(status, attempt, rt, sm) == ~sm /\ status > 500 /\ attempt < rt

(* mutant: a 5xx is retried even on the last attempt *)
Retry5xxNoGuard(status, attempt, rt, sm) == ~sm /\ status >= 500

(* line 132 *)
Retry5xx(status, attempt, rt, sm) == ~sm /\ status >= 500 /\ attempt < rt

(* lines 137-149 *)
ContentVerdict(c, stype, data) ==
  LET head == Decode(data) IN
  IF stype = "hls" THEN
    IF Contains(head, "#EXTM3U") THEN Return(c, OK, Msg("OK (HLS)", 0, ""))
    ELSE Return(c, FAIL, Msg("Bad HLS content", 0, ""))
  ELSE IF stype = "dash" THEN
    IF Contains(head, "<MPD") \/ Contains(head, "urn:mpeg:dash:schema:mpd")
    THEN Return(c, OK, Msg("OK (DASH)", 0, ""))
    ELSE Return(c, FAIL, Msg("Bad DASH content", 0, ""))
  ELSE Return(c, OK, Msg("OK", 0, ""))

(* mutant: the status range is tested before the restricted codes *)
OnResponseStatusFirst(c, stype, r, rt, b, sm) ==
  IF IsBadStatus(r.status)
  THEN IF Retry5xx(r.status, c.attempt, rt, sm)
       THEN SleepAndContinue(c, b)
       ELSE Return(c, FAIL, Msg("HTTP %d", r.status, ""))
  ELSE ContentVerdict(c, stype, r.data)

(* lines 124-149: http_get_some returned (status, ctype, data) *)
OnResponse(c, stype, r, rt, b, sm) ==
  IF IsRestricted(r.status, sm)
  THEN Return(c, WARN, Msg("Restricted (HTTP %d)", r.status, ""))
  ELSE IF IsBadStatus(r.status)
  THEN IF Retry5xx(r.status, c.attempt, rt, sm)
       THEN SleepAndContinue(c, b)
       ELSE Return(c, FAIL, Msg("HTTP %d", r.status, ""))
  ELSE ContentVerdict(c, stype, r.data)

(* mutant: the strict flag is not consulted *)
IsSoftErrorAnyMode(ex, sm) == is_timeout_error(ex) \/ is_likely_dns_error(ex)

(* line 155 *)
IsSoftError(ex, sm) == ~sm /\ (is_timeout_error(ex) \/ is_likely_dns_error(ex))

(* mutant: every soft error is reported as a timeout *)
KindAlwaysTimeout(ex) == "Timeout"

(* line 159 *)
Kind(ex) == IF is_timeout_error(ex) THEN "Timeout" ELSE "DNS"

(* mutant: the last retry is not taken *)
AttemptsLeftOffByOne(attempt, rt) == attempt + 1 < rt

(* lines 156 and 162: "if attempt < retries" *)
AttemptsLeft(attempt, rt) == attempt < rt

(* mutant: a soft error that was already retried is reported as FAIL *)
OnExceptionRetriedFails(c, ex, rt, b, sm) ==
  LET c1 == [c EXCEPT !.last_ex = ex] IN
  IF c1.attempt < rt
  THEN SleepAndContinue(c1, b)
  ELSE IF IsSoftError(ex, sm) /\ c1.attempt = 1
  THEN Return(c1, WARN, Msg("%s issue", 0, Kind(ex)))
  ELSE Return(c1, FAIL, Msg("Request error: %s", 0, ex.type))

(* lines 151-166: http_get_some raised a RequestException *)
OnException(c, ex, rt, b, sm) ==
  LET c1 == [c EXCEPT !.last_ex = ex] IN
  IF IsSoftError(ex, sm)
  THEN IF AttemptsLeft(c1.attempt, rt)
       THEN SleepAndContinue(c1, b)
       ELSE Return(c1, WARN, Msg("%s issue", 0, Kind(ex)))
  ELSE IF AttemptsLeft(c1.attempt, rt)
       THEN SleepAndContinue(c1, b)
       ELSE Return(c1, FAIL, Msg("Request error: %s", 0, ex.type))

(* One iteration of "for attempt in range(1, retries + 1)" with the outcome *)
(* o of http_get_some.                                                      *)
Attempt(c, e, o, rt, b, sm) ==
  LET c1 == [c EXCEPT !.probes = @ + 1, !.out = o] IN
  IF IsResponse(o)
  THEN OnResponse(c1, sniff_type(e.url), o, rt, b, sm)
  ELSE OnException(c1, o, rt, b, sm)

(* line 168: the loop ended without a return *)
Exhausted(c) ==
  Return(c, FAIL, Msg("Request error: %s", 0,
                      IF c.last_ex = None THEN "None" ELSE c.last_ex.type))

(* mutant: the loop body runs at least once *)
InLoopAtLeastOnce(c, rt) == ~c.done /\ (c.attempt <= rt \/ c.probes = 0)

(* range(1, retries + 1) still has an attempt to give *)
InLoop(c, rt) == ~c.done /\ c.attempt <= rt

(* ------------------------------- main ----------------------------------- *)
(* mutant: equal results are counted once *)
CountDistinct(rs, st) == Cardinality({rs[i] : i \in {j \in DOMAIN rs : rs[j].st = st}})

(* build_html lines 172-175: the counts the report shows *)
Count(rs, st) == Cardinality({i \in DOMAIN rs : rs[i].st = st})

build_html(rs) ==
  [ok |-> Count(rs, OK), warn |-> Count(rs, WARN), fail |-> Count(rs, FAIL),
   total |-> Len(rs)]

(* mutant: any status other than OK makes the run fail *)
ExitStatusNotOk(rs) == IF \E i \in DOMAIN rs : rs[i].st # OK THEN 1 ELSE 0

(* line 430 *)
ExitStatus(rs) == IF \E i \in DOMAIN rs : rs[i].st = FAIL THEN 1 ELSE 0

(* mutant: the new result is put at the front of the list *)
AppendResultFront(rs, e, c) == <<[entry |-> e, st |-> c.st, msg |-> c.msg]>> \o rs

(* results.append((e, st, msg)) *)
AppendResult(rs, e, c) == Append(rs, [entry |-> e, st |-> c.st, msg |-> c.msg])

(* mutant: a playlist of one entry is taken for an empty one *)
NoEntriesOffByOne(es) == Len(es) <= 1

(* line 410: "if not entries" *)
NoEntries(es) == es = <<>>

Init ==
  /\ first = None
  /\ script = <<>>
  /\ entries \in Playlists
  /\ retries \in RetriesChoices
  /\ backoff_s \in BackoffChoices
  /\ strict \in BOOLEAN
  /\ pc = "parse"
  /\ idx = 0
  /\ ce = NewCall
  /\ results = <<>>
  /\ report = None
  /\ exitCode = None
  /\ hg = None
  /\ pe = None

(* lines 407-415: no entries: return 2; otherwise start the loop *)
MainParse ==
  /\ pc = "parse"
  /\ IF NoEntries(entries)
     THEN /\ exitCode' = 2
          /\ pc' = "done"
          /\ UNCHANGED idx
     ELSE /\ pc' = "check"
          /\ idx' = 1
          /\ UNCHANGED exitCode
  /\ ce' = NewCall
  /\ UNCHANGED <<entries, retries, backoff_s, strict, results, report, script, first>>
  /\ UNCHANGED <<hg, pe>>

(* lines 122-166: one attempt of check_entry(entries[idx]) *)
MainAttempt(o) ==
  /\ pc = "check"
  /\ idx <= Len(entries)
  /\ InLoop(ce, retries)
  /\ ce' = Attempt(ce, entries[idx], o, retries, backoff_s, strict)
  /\ UNCHANGED <<entries, retries, backoff_s, strict, pc, idx, results, report,
                 exitCode, script, first>>
  /\ UNCHANGED <<hg, pe>>

(* line 168 *)
MainExhausted ==
  /\ pc = "check"
  /\ idx <= Len(entries)
  /\ ~ce.done
  /\ ~InLoop(ce, retries)
  /\ ce' = Exhausted(ce)
  /\ UNCHANGED <<entries, retries, backoff_s, strict, pc, idx, results, report,
                 exitCode, script, first>>
  /\ UNCHANGED <<hg, pe>>

(* lines 416-424: check_entry returned; append and go to the next entry *)
MainAppend ==
  /\ pc = "check"
  /\ idx <= Len(entries)
  /\ ce.done
  /\ results' = AppendResult(results, entries[idx], ce)
  /\ idx' = idx + 1
  /\ ce' = NewCall
  /\ UNCHANGED <<entries, retries, backoff_s, strict, pc, report, exitCode,
                 script, first>>
  /\ UNCHANGED <<hg, pe>>

(* lines 426-430: write the report and return the exit status *)
MainReport ==
  /\ pc = "check"
  /\ idx > Len(entries)
  /\ report' = build_html(results)
  /\ exitCode' = ExitStatus(results)
  /\ pc' = "done"
  /\ UNCHANGED <<entries, retries, backoff_s, strict, idx, ce, results, script, first>>
  /\ UNCHANGED <<hg, pe>>

Next ==
  \/ MainParse
  \/ \E o \in RunOutcomes : MainAttempt(o)
  \/ MainExhausted
  \/ MainAppend
  \/ MainReport

Spec == Init /\ [][Next]_vars

(* ------------------- check_entry under scripted outcomes ---------------- *)
(* A scripted test of check_entry alone: one entry, a first call fed any    *)
(* outcomes (recorded in script), then a second call on the same entry and  *)
(* the same retries and backoff, under either strict flag, fed the recorded *)
(* outcomes again.                                                          *)
InitScript ==
  /\ first = None
  /\ script = <<>>
  /\ entries \in [1..1 -> Entry]
  /\ retries \in RetriesChoices
  /\ backoff_s \in BackoffChoices
  /\ strict \in BOOLEAN
  /\ pc = "call"
  /\ idx = 1
  /\ ce = NewCall
  /\ results = <<>>
  /\ report = None
  /\ exitCode = None
  /\ hg = None
  /\ pe = None

(* lines 122-166, first call: any outcome *)
CallAttempt(o) ==
  /\ pc = "call"
  /\ first = None
  /\ InLoop(ce, retries)
  /\ ce' = Attempt(ce, entries[idx], o, retries, backoff_s, strict)
  /\ script' = Append(script, o)
  /\ UNCHANGED <<entries, retries, backoff_s, strict, pc, idx, results, report,
                 exitCode, first>>
  /\ UNCHANGED <<hg, pe>>

(* lines 122-166, second call: the outcome the script has for this attempt *)
ReplayAttempt ==
  /\ pc = "call"
  /\ first # None
  /\ InLoop(ce, retries)
  /\ Len(script) < Len(first.script)
  /\ ce' = Attempt(ce, entries[idx], first.script[Len(script) + 1], retries,
                   backoff_s, strict)
  /\ script' = Append(script, first.script[Len(script) + 1])
  /\ UNCHANGED <<entries, retries, backoff_s, strict, pc, idx, results, report,
                 exitCode, first>>
  /\ UNCHANGED <<hg, pe>>

(* line 168 *)
CallExhausted ==
  /\ pc = "call"
  /\ ~ce.done
  /\ ~InLoop(ce, retries)
  /\ ce' = Exhausted(ce)
  /\ UNCHANGED <<entries, retries, backoff_s, strict, pc, idx, results, report,
                 exitCode, script, first>>
  /\ UNCHANGED <<hg, pe>>

(* The first call returned: call check_entry again under strict flag sm *)
CallAgain(sm) ==
  /\ pc = "call"
  /\ first = None
  /\ ce.done
  /\ first' = [strict |-> strict, script |-> script, ce |-> ce]
  /\ strict' = sm
  /\ ce' = NewCall
  /\ script' = <<>>
  /\ UNCHANGED <<entries, retries, backoff_s, pc, idx, results, report, exitCode>>
  /\ UNCHANGED <<hg, pe>>

NextScript ==
  \/ \E o \in Outcomes : CallAttempt(o)
  \/ ReplayAttempt
  \/ CallExhausted
  \/ \E sm \in BOOLEAN : CallAgain(sm)

SpecScript == InitScript /\ [][NextScript]_vars

(* ---------------------------- http_get_some ----------------------------- *)
(* One call of http_get_some on its own: the response arrives in chunks of  *)
(* at most MaxChunk bytes, an empty chunk included; requests.get and        *)
(* iter_content may raise.                                                  *)
Bytes == {"a", "b"}
Chunks == UNION {[1..n -> Bytes] : n \in 0..MaxChunk}
UserAgents == {"none", "", "VLC/3.0"}
ContentTypes == {<<>>, <<" ", "Text/HTML", " ", ";", "charset=utf-8">>}

(* lines 87-89: "if ua" is false for None and for the empty string *)
Headers(ua) == IF ua # "none" /\ ua # "" THEN {<<"User-Agent", ua>>} ELSE {}

(* line 94: (Content-Type or "").split(";")[0].strip().lower() *)
BeforeSemicolon(h) ==
  IF Contains(h, ";")
  THEN SubSeq(h, 1, (CHOOSE i \in DOMAIN h : h[i] = ";" /\ \A j \in 1..(i - 1) : h[j] # ";") - 1)
  ELSE h

Strip(t) ==
  LET ink == {i \in DOMAIN t : t[i] # " "} IN
  IF ink = {} THEN <<>>
  ELSE SubSeq(t, CHOOSE i \in ink : \A j \in ink : i <= j,
                 CHOOSE i \in ink : \A j \in ink : i >= j)

ContentType(h) == LowerAll(Strip(BeforeSemicolon(h)))

(* mutant: the cut to max_bytes is left out *)
TruncateNot(data, n) == data

(* line 103: data[:max_bytes] *)
Truncate(data, n) == SubSeq(data, 1, n)

(* mutant: the cap is reached only when it is exceeded *)
CapReachedWhenOver(data, n) == Len(data) > n

(* line 102 *)
CapReached(data, n) == Len(data) >= n

(* mutant: close() follows the loop instead of standing in a finally block *)
FinallyOnlyOnReturn(h) == [h EXCEPT !.closed = (h.pc = "returned")]

(* lines 105-106: finally: r.close() *)
Finally(h) == [h EXCEPT !.closed = TRUE]

(* line 108: return status, ctype, data *)
ReturnSome(h) ==
  [h EXCEPT !.pc = "returned",
            !.result = [status |-> h.status, ctype |-> h.ctype, data |-> h.data]]

InitGet ==
  /\ first = None
  /\ script = <<>>
  /\ entries = <<>>
  /\ retries = 1
  /\ backoff_s = DefaultBackoff
  /\ strict = FALSE
  /\ pc = "get"
  /\ idx = 0
  /\ ce = NewCall
  /\ results = <<>>
  /\ report = None
  /\ exitCode = None
  /\ pe = None
  /\ \E ua \in UserAgents, mb \in 0..MaxCap :
       hg = [pc |-> "get", headers |-> Headers(ua), max_bytes |-> mb,
             opened |-> FALSE, closed |-> FALSE, status |-> 0, ctype |-> <<>>,
             data |-> <<>>, stream |-> <<>>, nread |-> 0, error |-> None,
             result |-> None]

(* lines 92-96: requests.get returned the response r *)
GetResponds(st, ct) ==
  /\ pc = "get"
  /\ hg.pc = "get"
  /\ hg' = [hg EXCEPT !.pc = "read", !.opened = TRUE, !.status = st,
                      !.ctype = ContentType(ct), !.data = <<>>]
  /\ UNCHANGED <<entries, retries, backoff_s, strict, pc, idx, ce, results,
                 report, exitCode, script, first, pe>>

(* line 92: requests.get raised: there is no response *)
GetRaises(ex) ==
  /\ pc = "get"
  /\ hg.pc = "get"
  /\ hg' = [hg EXCEPT !.pc = "raised", !.error = ex]
  /\ UNCHANGED <<entries, retries, backoff_s, strict, pc, idx, ce, results,
                 report, exitCode, script, first, pe>>

(* lines 98-108: iter_content yielded chunk *)
ReadChunk(chunk) ==
  /\ pc = "get"
  /\ hg.pc = "read"
  /\ hg.nread < MaxChunks
  /\ LET h1 == [hg EXCEPT !.stream = @ \o chunk, !.nread = @ + 1]
         h2 == [h1 EXCEPT !.data = @ \o chunk]
     IN hg' = IF chunk = <<>>
              THEN Finally(ReturnSome(h1))
              ELSE IF CapReached(h2.data, h2.max_bytes)
              THEN Finally(ReturnSome(
                     [h2 EXCEPT !.data = Truncate(@, h2.max_bytes)]))
              ELSE h2
  /\ UNCHANGED <<entries, retries, backoff_s, strict, pc, idx, ce, results,
                 report, exitCode, script, first, pe>>

(* lines 98, 105-108: iter_content is exhausted *)
ReadEnd ==
  /\ pc = "get"
  /\ hg.pc = "read"
  /\ hg' = Finally(ReturnSome(hg))
  /\ UNCHANGED <<entries, retries, backoff_s, strict, pc, idx, ce, results,
                 report, exitCode, script, first, pe>>

(* lines 98, 105-106: iter_content raised; the error leaves the function *)
ReadRaises(ex) ==
  /\ pc = "get"
  /\ hg.pc = "read"
  /\ hg' = Finally([hg EXCEPT !.pc = "raised", !.error = ex])
  /\ UNCHANGED <<entries, retries, backoff_s, strict, pc, idx, ce, results,
                 report, exitCode, script, first, pe>>

NextGet ==
  \/ \E st \in {200, 404}, ct \in ContentTypes : GetResponds(st, ct)
  \/ \E ex \in {ExTimeout, ExDns} : GetRaises(ex)
  \/ \E chunk \in Chunks : ReadChunk(chunk)
  \/ ReadEnd
  \/ \E ex \in {ExTimeout, ExOther} : ReadRaises(ex)

SpecGet == InitGet /\ [][NextGet]_vars

(* ----------------------------- parse_entries ---------------------------- *)
(* One call of parse_entries on its own.  A line is a sequence of text      *)
(* fragments, " " standing for white space; a str value is the sequence of  *)
(* its fragments, an Optional[str] is None or [s |-> the str].              *)
LineInfComma == <<"#EXTINF:", "-1", ",", " ", "Rai", ",", "Uno">>
LineInfPlain == <<" ", "#EXTINF:", "Rai 3">>
LineInfEmpty == <<"#EXTINF:", "-1", ",">>
LineUa == <<"#EXTVLCOPT:http-user-agent=", "VLC", "=", "3", " ">>
LineHttp == <<"http://", "tv.example/1.m3u8", " ">>
LineHttps == <<"https://", "cdn.example/2">>
LineOther == <<"#EXTM3U">>
LineBlank == <<" ">>
Lines == {LineInfComma, LineInfPlain, LineInfEmpty, LineUa, LineHttp, LineHttps,
          LineOther, LineBlank}

Texts == UNION {[1..n -> Lines] : n \in 0..MaxLines}

Some(v) == [s |-> v]

(* line 41: [ln.strip() for ln in m3u_text.splitlines() if ln.strip()] *)
StripLines(text) ==
  LET stripped == [i \in DOMAIN text |-> Strip(text[i])] IN
  SelectSeq(stripped, LAMBDA ln : ln # <<>>)

(* ln.startswith(prefix), prefix being one fragment *)
StartsWith(ln, prefix) == ln # <<>> /\ ln[1] = prefix

(* s.split(sep, 1)[1], sep being one fragment that s holds *)
AfterFirst(ln, sep) ==
  LET i == CHOOSE k \in DOMAIN ln : ln[k] = sep /\ \A j \in 1..(k - 1) : ln[j] # sep
  IN SubSeq(ln, i + 1, Len(ln))

(* line 48 *)
ExtinfName(ln) ==
  IF Contains(ln, ",")
  THEN Strip(AfterFirst(ln, ","))
  ELSE Strip(SelectSeq(ln, LAMBDA f : f # "#EXTINF:"))

(* line 50: the first "=" is the one that ends the directive's name *)
UaValue(ln) == Strip(Tail(ln))

(* line 51 *)
IsUrlLine(ln) == StartsWith(ln, "http://") \/ StartsWith(ln, "https://")

(* line 52: current_name or "UNKNOWN" *)
NameOr(current_name) ==
  IF current_name = None \/ current_name = Some(<<>>)
  THEN <<"UNKNOWN">>
  ELSE current_name.s

(* mutant: the user agent is not cleared after a URL line *)
ClearNameOnly(p) == [p EXCEPT !.current_name = None]

(* lines 53-54 *)
ClearCurrent(p) == [p EXCEPT !.current_name = None, !.current_ua = None]

(* lines 47-54: the body of "for ln in lines" *)
ParseOne(p, ln) ==
  IF StartsWith(ln, "#EXTINF:")
  THEN [p EXCEPT !.current_name = Some(ExtinfName(ln))]
  ELSE IF StartsWith(ln, "#EXTVLCOPT:http-user-agent=")
  THEN [p EXCEPT !.current_ua = Some(UaValue(ln))]
  ELSE IF IsUrlLine(ln)
  THEN ClearCurrent(
         [p EXCEPT !.entries =
            Append(@, [name |-> NameOr(p.current_name), url |-> ln,
                       user_agent |-> p.current_ua])])
  ELSE p

InitParse ==
  /\ first = None
  /\ script = <<>>
  /\ entries = <<>>
  /\ retries = 1
  /\ backoff_s = DefaultBackoff
  /\ strict = FALSE
  /\ pc = "parse_entries"
  /\ idx = 0
  /\ ce = NewCall
  /\ results = <<>>
  /\ report = None
  /\ exitCode = None
  /\ hg = None
  /\ \E text \in Texts :
       pe = [pc |-> "start", text |-> text, lines |-> <<>>, i |-> 0,
             entries |-> <<>>, current_name |-> None, current_ua |-> None,
             result |-> None]

(* lines 41-44 *)
ParseStart ==
  /\ pc = "parse_entries"
  /\ pe.pc = "start"
  /\ pe' = [pe EXCEPT !.pc = "loop", !.lines = StripLines(pe.text), !.i = 1,
                      !.entries = <<>>, !.current_name = None,
                      !.current_ua = None]
  /\ UNCHANGED <<entries, retries, backoff_s, strict, pc, idx, ce, results,
                 report, exitCode, script, first, hg>>

(* lines 46-54: one line *)
ParseLine ==
  /\ pc = "parse_entries"
  /\ pe.pc = "loop"
  /\ pe.i <= Len(pe.lines)
  /\ pe' = [ParseOne(pe, pe.lines[pe.i]) EXCEPT !.i = @ + 1]
  /\ UNCHANGED <<entries, retries, backoff_s, strict, pc, idx, ce, results,
                 report, exitCode, script, first, hg>>

(* line 56 *)
ParseReturn ==
  /\ pc = "parse_entries"
  /\ pe.pc = "loop"
  /\ pe.i > Len(pe.lines)
  /\ pe' = [pe EXCEPT !.pc = "returned", !.result = pe.entries]
  /\ UNCHANGED <<entries, retries, backoff_s, strict, pc, idx, ce, results,
                 report, exitCode, script, first, hg>>

NextParse ==
  \/ ParseStart
  \/ ParseLine
  \/ ParseReturn

SpecParse == InitParse /\ [][NextParse]_vars

(* ======================================================================= *)
(*                              Properties                                  *)
(* ======================================================================= *)

(* The running call made a probe in this step *)
Probed == ce'.probes = ce.probes + 1

(* The running call slept in this step *)
Slept == Len(ce'.sleeps) = Len(ce.sleeps) + 1

(* The Content Classifier's decision table (first matching rule wins), for  *)
(* stream kind k, fetch outcome o and strict flag sm.                       *)
ErrKind(ex) ==
  IF is_timeout_error(ex) THEN "Timeout"
  ELSE IF is_likely_dns_error(ex) THEN "DNS"
  ELSE "Other"

HasMarker(k, data) ==
  LET body == Decode(data) IN
  CASE k = "hls" -> Contains(body, "#EXTM3U")
    [] k = "dash" -> Contains(body, "<MPD") \/ Contains(body, "urn:mpeg:dash:schema:mpd")
    [] OTHER -> TRUE

Table(k, o, sm) ==
  IF IsException(o) /\ ~sm /\ ErrKind(o) \in {"Timeout", "DNS"}
  THEN [verdict |-> WARN, reason |-> "kind"]
  ELSE IF IsException(o)
  THEN [verdict |-> FAIL, reason |-> "transport"]
  ELSE IF o.status \in {403, 451} /\ ~sm
  THEN [verdict |-> WARN, reason |-> "restricted"]
  ELSE IF o.status \notin 200..399
  THEN [verdict |-> FAIL, reason |-> "code"]
  ELSE IF k = "hls" /\ ~HasMarker(k, o.data)
  THEN [verdict |-> FAIL, reason |-> "bad HLS"]
  ELSE IF k = "dash" /\ ~HasMarker(k, o.data)
  THEN [verdict |-> FAIL, reason |-> "bad DASH"]
  ELSE [verdict |-> OK, reason |-> "ok"]

(* The reason category a returned message belongs to *)
ReasonOf(msg) ==
  CASE msg.fmt = "%s issue" -> "kind"
    [] msg.fmt = "Request error: %s" -> "transport"
    [] msg.fmt = "Restricted (HTTP %d)" -> "restricted"
    [] msg.fmt = "HTTP %d" -> "code"
    [] msg.fmt = "Bad HLS content" -> "bad HLS"
    [] msg.fmt = "Bad DASH content" -> "bad DASH"
    [] OTHER -> "ok"

(* C1: the results are, at every moment, the results of the entries checked *)
(* so far, one per entry and in input order (result i is entry i's); when a *)
(* run over a non-empty playlist ends there is exactly one per entry.       *)
C1_OneResultPerEntry ==
  /\ Len(results) <= Len(entries)
  /\ \A i \in DOMAIN results : results[i].entry = entries[i]
  /\ (pc = "done" /\ entries # <<>>) => Len(results) = Len(entries)

C1_Witness ==
  /\ pc = "done"
  /\ Len(entries) = 2
  /\ entries[1] = entries[2]
  /\ Len(results) = 2
  /\ results[1].st # results[2].st

(* C2 as stated: in every finished run the exit code is non-zero iff some   *)
(* result is FAIL.                                                          *)
C2_ExitNonZeroIffFailed ==
  pc = "done" => ((exitCode # 0) <=> (\E i \in DOMAIN results : results[i].st = FAIL))

(* C2 amended: in every finished run over a non-empty playlist the exit     *)
(* code is 1 if some result is FAIL and 0 otherwise, whatever the number of *)
(* WARN results; failedCount of the report is the number of FAIL results.   *)
C2_ExitLawNonEmpty ==
  (pc = "done" /\ entries # <<>>) =>
    /\ exitCode \in {0, 1}
    /\ (exitCode # 0) <=> (\E i \in DOMAIN results : results[i].st = FAIL)
    /\ (exitCode # 0) <=> (report.fail > 0)

C2_Witness ==
  /\ pc = "done"
  /\ entries # <<>>
  /\ report.warn = Len(entries)
  /\ exitCode = 0

C4_SingleAttemptIsTable ==
  (retries = 1 /\ ce.done) =>
    /\ ce.probes = 1
    /\ ce.st = Table(sniff_type(entries[idx].url), ce.out, strict).verdict
    /\ ReasonOf(ce.msg) = Table(sniff_type(entries[idx].url), ce.out, strict).reason

C4_Witness ==
  /\ retries = 1
  /\ ce.done
  /\ entries[idx] = EntryHls
  /\ ce.out = [status |-> 200, data |-> BodyHtml]
  /\ ce.st = FAIL
  /\ ce.msg.fmt = "Bad HLS content"

(* C5: when the first call, not strict, ended WARN, the second call, strict *)
(* and fed the same outcomes, ends FAIL within those outcomes.              *)
C5_StrictMonotone ==
  (first # None /\ ~first.strict /\ strict /\ first.ce.st = WARN) =>
    /\ ce.done => ce.st = FAIL
    /\ ~ce.done => InLoop(ce, retries) /\ Len(script) < Len(first.script)

C5_Witness ==
  /\ first # None
  /\ ~first.strict
  /\ strict
  /\ first.ce.st = WARN
  /\ first.ce.msg.fmt = "Restricted (HTTP %d)"
  /\ Len(first.script) = 2
  /\ ce.done
  /\ ce.st = FAIL

(* C6: in a strict run no result, appended or just returned, is WARN.       *)
C6_StrictNeverWarn ==
  strict =>
    /\ \A i \in DOMAIN results : results[i].st \in {OK, FAIL}
    /\ ce.done => ce.st \in {OK, FAIL}

C6_Witness ==
  /\ strict
  /\ pc = "done"
  /\ \E i \in DOMAIN results :
       results[i].msg = Msg("HTTP %d", 403, "")
  /\ \E i \in DOMAIN results :
       results[i].msg = Msg("Request error: %s", 0, "ReadTimeout")

(* C7: while every outcome so far was a timeout or DNS error and attempts   *)
(* remain, the call goes on, one sleep per probe; when k - 1 such outcomes  *)
(* are followed by a response the table calls OK, the call has returned OK  *)
(* after k probes and k - 1 sleeps.                                         *)
Transient(o) == IsException(o) /\ ErrKind(o) \in {"Timeout", "DNS"}

C7_RecoveryByRetry ==
  LET k == Len(script) IN
  /\ ((\A i \in 1..k : Transient(script[i])) /\ k < retries) =>
       InLoop(ce, retries) /\ ce.probes = k /\ Len(ce.sleeps) = k
  /\ (/\ k >= 1
      /\ \A i \in 1..(k - 1) : Transient(script[i])
      /\ Table(sniff_type(entries[idx].url), script[k], strict).verdict = OK) =>
       ce.done /\ ce.st = OK /\ ce.probes = k /\ Len(ce.sleeps) = k - 1

C7_Witness ==
  /\ retries = 3
  /\ entries[idx] = EntryHls
  /\ script = <<ExTimeout, ExDns, [status |-> 200, data |-> BodyHls]>>
  /\ ce.done
  /\ ce.st = OK
  /\ ce.sleeps = <<DefaultBackoff, 2 * DefaultBackoff>>

(* C8: an attempt that yields bad HLS/DASH content, or a status outside     *)
(* 200..399 that is not 403, 451 or 5xx, returns FAIL at once without a     *)
(* sleep; a call that has returned makes no further probe and no sleep.     *)
NonRetryable(k, o) ==
  /\ IsResponse(o)
  /\ \/ o.status \notin 200..399 /\ o.status \notin {403, 451} /\ o.status < 500
     \/ o.status \in 200..399 /\ ~HasMarker(k, o.data)

C8_NonRetryableFinal ==
  [][/\ (Probed /\ NonRetryable(sniff_type(entries[idx].url), ce'.out)) =>
          ce'.done /\ ce'.st = FAIL /\ ce'.sleeps = ce.sleeps
     /\ ce.done => ~Probed /\ ~Slept]_vars

C8_Witness ==
  /\ retries = 3
  /\ ce.done
  /\ ce.out = [status |-> 404, data |-> BodyHls]
  /\ ce.probes = 1
  /\ ce.sleeps = <<>>
  /\ ce.st = FAIL

(* C9 as stated: in either mode an attempt below retries that yields a 5xx  *)
(* response or a transport error that is neither timeout nor DNS is         *)
(* followed by a sleep and a further attempt.                               *)
RetryEligible(o) ==
  \/ IsResponse(o) /\ o.status >= 500
  \/ IsException(o) /\ ErrKind(o) = "Other"

C9_RetryEligibleRetried ==
  [][(Probed /\ RetryEligible(ce'.out) /\ ce.attempt < retries) =>
       ~ce'.done /\ Slept /\ ce'.attempt = ce.attempt + 1]_vars

(* C9 amended: an attempt below retries that yields a 5xx response in       *)
(* non-strict mode, or a transport error that is neither timeout nor DNS in *)
(* either mode, is followed by a sleep and a further attempt.               *)
C9_RetryEligibleRetriedNonStrict5xx ==
  [][(/\ Probed
      /\ ce.attempt < retries
      /\ \/ IsResponse(ce'.out) /\ ce'.out.status >= 500 /\ ~strict
         \/ IsException(ce'.out) /\ ErrKind(ce'.out) = "Other") =>
       /\ ~ce'.done
       /\ Slept
       /\ ce'.attempt = ce.attempt + 1
       /\ InLoop(ce', retries)]_vars

C9_Witness ==
  /\ ~strict
  /\ first = None
  /\ script = <<ExOther, [status |-> 500, data |-> BodyHtml]>>
  /\ ~ce.done
  /\ ce.attempt = 3
  /\ Len(ce.sleeps) = 2

IsPrefix(s, t) == Len(s) <= Len(t) /\ SubSeq(t, 1, Len(s)) = s

C18_ResponseAlwaysClosed ==
  hg # None =>
    /\ (hg.pc \in {"returned", "raised"} /\ hg.opened) => hg.closed
    /\ hg.pc = "read" => hg.opened /\ ~hg.closed
    /\ hg.closed => hg.opened

C18_Witness ==
  /\ hg # None
  /\ hg.pc = "raised"
  /\ hg.error = ExOther
  /\ hg.nread = 1
  /\ hg.opened
  /\ hg.closed

(* C12: with retries >= 1 a call that has not returned always has its next  *)
(* attempt to make and has made fewer than retries probes; a call that has  *)
(* returned has a status and made between 1 and retries probes; after the   *)
(* return there is no probe and no sleep.                                   *)
C12_LoopTerminates ==
  /\ [](retries >= 1 =>
         /\ ~ce.done =>
              InLoop(ce, retries) /\ ce.probes = ce.attempt - 1 /\ ce.probes < retries
         /\ ce.done =>
              ce.st \in Status /\ ce.probes >= 1 /\ ce.probes <= retries)
  /\ [][ce.done => ~Probed /\ ~Slept]_vars

C12_Witness ==
  /\ retries = 3
  /\ ce.done
  /\ ce.probes = 3
  /\ ce.st = FAIL
  /\ ce.out = [status |-> 500, data |-> BodyHls]

(* C13: the n-th sleep of a call lasts backoff_s * n and follows attempt n, *)
(* one sleep per retried attempt; there are never more than retries - 1     *)
(* sleeps, so none follows the last attempt.                                *)
C13_LinearBackoffBetweenAttempts ==
  /\ ce.sleeps = [n \in 1..Len(ce.sleeps) |-> backoff_s * n]
  /\ Len(ce.sleeps) = ce.attempt - 1
  /\ ~ce.done => ce.probes = Len(ce.sleeps)
  /\ (ce.done /\ retries >= 1) => ce.probes = Len(ce.sleeps) + 1
  /\ retries >= 1 => Len(ce.sleeps) <= retries - 1
  /\ retries <= 0 => ce.sleeps = <<>>

C13_Witness ==
  /\ retries = 3
  /\ ce.done
  /\ ce.probes = 3
  /\ ce.sleeps = <<backoff_s, backoff_s * 2>>
  /\ ce.out = ExOther

(* C14: not strict, retries >= 1: when every one of the retries outcomes    *)
(* was a timeout or DNS error the call has returned WARN after exactly      *)
(* retries probes, its message naming the kind of the last error; before    *)
(* that it is still in its loop.                                            *)
C14_ExhaustionDegrades ==
  LET k == Len(script) IN
  (~strict /\ retries >= 1 /\ \A i \in 1..k : Transient(script[i])) =>
    /\ k <= retries
    /\ k < retries => ~ce.done /\ ce.probes = k
    /\ k = retries =>
         /\ ce.done
         /\ ce.st = WARN
         /\ ce.probes = retries
         /\ ce.msg = Msg("%s issue", 0, ErrKind(script[k]))

C14_Witness ==
  /\ ~strict
  /\ retries = 3
  /\ script = <<ExTimeout, ExDnsTimeout, ExDns>>
  /\ ce.done
  /\ ce.st = WARN
  /\ ce.msg.detail = "DNS"

(* C15: not strict: an attempt that yields status 403 or 451 returns WARN   *)
(* "Restricted" with that code at once, without a sleep, whatever the       *)
(* attempts left.                                                           *)
C15_RestrictedFinalAtOnce ==
  [][(Probed /\ ~strict /\ IsResponse(ce'.out) /\ ce'.out.status \in {403, 451}) =>
       /\ ce'.done
       /\ ce'.st = WARN
       /\ ce'.msg = Msg("Restricted (HTTP %d)", ce'.out.status, "")
       /\ ce'.sleeps = ce.sleeps
       /\ ce'.attempt = ce.attempt]_vars

C15_Witness ==
  /\ ~strict
  /\ retries = 3
  /\ ce.done
  /\ ce.out = [status |-> 451, data |-> BodyHls]
  /\ ce.probes = 1
  /\ ce.sleeps = <<>>
  /\ ce.st = WARN

(* C16: with retries >= 1 the status a call returns is the status a call    *)
(* with retries = 1 returns for the outcome of its last probe.              *)
SingleAttempt(e, o, b, sm) == Attempt(NewCall, e, o, 1, b, sm)

C16_VerdictOfLastOutcome ==
  (retries >= 1 /\ ce.done) =>
    /\ SingleAttempt(entries[idx], ce.out, backoff_s, strict).done
    /\ ce.st = SingleAttempt(entries[idx], ce.out, backoff_s, strict).st
    /\ ce.out = script[Len(script)]

C16_Witness ==
  /\ ~strict
  /\ retries = 3
  /\ script = <<[status |-> 500, data |-> BodyHtml], ExOther, ExTimeout>>
  /\ ce.done
  /\ ce.st = WARN

(* C17: with retries <= 0 no probe and no sleep is ever made, every call    *)
(* returns FAIL "Request error: None", and a finished run over a non-empty  *)
(* playlist has exit code 1.                                                *)
C17_NoAttemptsAllFail ==
  retries <= 0 =>
    /\ ce.probes = 0
    /\ ce.sleeps = <<>>
    /\ ce.done => ce.st = FAIL /\ ce.msg = Msg("Request error: %s", 0, "None")
    /\ \A i \in DOMAIN results :
         results[i].st = FAIL /\ results[i].msg = Msg("Request error: %s", 0, "None")
    /\ (pc = "done" /\ entries # <<>>) => exitCode = 1 /\ Len(results) = Len(entries)

C17_Witness ==
  /\ retries = 0
  /\ pc = "done"
  /\ Len(entries) = 2
  /\ Len(results) = 2
  /\ exitCode = 1

(* C19: in a finished run over a non-empty playlist the counts of the       *)
(* report are the numbers of results of each status, and they add up to     *)
(* the total, which is the number of entries.                               *)
RECURSIVE Tally(_, _)
Tally(rs, st) ==
  IF rs = <<>> THEN 0
  ELSE (IF Head(rs).st = st THEN 1 ELSE 0) + Tally(Tail(rs), st)

C19_SummaryFromResults ==
  (pc = "done" /\ entries # <<>>) =>
    /\ report.ok = Tally(results, OK)
    /\ report.warn = Tally(results, WARN)
    /\ report.fail = Tally(results, FAIL)
    /\ report.ok + report.warn + report.fail = report.total
    /\ report.total = Len(entries)

C19_Witness ==
  /\ pc = "done"
  /\ Len(entries) = 2
  /\ Len(results) = 2
  /\ results[1] = results[2]
  /\ report.ok = 2
  /\ report.total = 2

(* C20: the entries built from the lines read so far are, in line order,    *)
(* one per URL line; each has the URL line as url, the name of the latest   *)
(* name directive since the previous URL line ("UNKNOWN" when there is none *)
(* or it is empty) and the user agent of the latest user-agent directive    *)
(* since the previous URL line (None when there is none).                   *)
UrlLinesUpTo(ls, n) == {i \in 1..n : IsUrlLine(ls[i])}

Max(S) == CHOOSE x \in S : \A y \in S : y <= x

(* the lines after the URL line before line i, up to line i - 1 *)
Since(ls, i) == (Max({0} \cup UrlLinesUpTo(ls, i - 1)) + 1)..(i - 1)

ExpectedName(ls, i) ==
  LET named == {j \in Since(ls, i) : StartsWith(ls[j], "#EXTINF:")} IN
  IF named = {} \/ ExtinfName(ls[Max(named)]) = <<>>
  THEN <<"UNKNOWN">>
  ELSE ExtinfName(ls[Max(named)])

ExpectedUa(ls, i) ==
  LET agents == {j \in Since(ls, i) :
                   StartsWith(ls[j], "#EXTVLCOPT:http-user-agent=")} IN
  IF agents = {} THEN None ELSE Some(UaValue(ls[Max(agents)]))

C20_ParseLineDriven ==
  (pe # None /\ pe.pc # "start") =>
    LET ls == pe.lines
        n == pe.i - 1
    IN /\ Len(pe.entries) = Cardinality(UrlLinesUpTo(ls, n))
       /\ \A i \in UrlLinesUpTo(ls, n) :
            pe.entries[Cardinality(UrlLinesUpTo(ls, i))] =
              [name |-> ExpectedName(ls, i), url |-> ls[i],
               user_agent |-> ExpectedUa(ls, i)]
       /\ pe.pc = "returned" => n = Len(ls) /\ pe.result = pe.entries

C20_Witness ==
  /\ pe # None
  /\ pe.pc = "returned"
  /\ pe.text = <<LineInfComma, LineUa, LineHttp, LineHttps>>
  /\ Len(pe.result) = 2
  /\ pe.result[1].name = <<"Rai", ",", "Uno">>
  /\ pe.result[1].user_agent = Some(<<"VLC", "=", "3">>)
  /\ pe.result[2].name = <<"UNKNOWN">>
  /\ pe.result[2].user_agent = None

====
